---- MODULE Spec2Model ----
(***************************************************************************)
(* Model of cars.go: the in-memory registry CadastroCarros (carrosMap and  *)
(* carros guarded by the RWMutex mu), its JSON persistence (SalvarJSON,    *)
(* CarregarJSON) and the command loop of main.                             *)
(*                                                                         *)
(* A string is a sequence of characters; BAD stands for a byte that is not *)
(* valid UTF-8 and REPL for U+FFFD, the rune encoding/json writes in its   *)
(* place.  A float64 is [nan |-> BOOLEAN, v |-> Int].                      *)
(***************************************************************************)
EXTENDS Integers, Sequences, FiniteSets, TLC

\* ------------------------------------------------------------------ bounds
MaxCarros == 2
MaxNano == 2
MaxFalhas == 1
MaxOps == 2

\* ------------------------------------------------- environment constants
\* time.Now().Year(), constant over a bounded run
AnoAtual == 2
\* nanoseconds per calendar day, scaled down
NanosPorDia == 2

BAD == "\\xff"
REPL == "\\ufffd"
SP == " "
Digitos == <<"0", "1", "2", "3", "4", "5", "6", "7", "8", "9">>

\* ----------------------------------------------------------- text helpers
RECURSIVE TrimLeft(_)
TrimLeft(s) == IF s # <<>> /\ Head(s) = SP THEN TrimLeft(Tail(s)) ELSE s

RECURSIVE TrimRight(_)
TrimRight(s) ==
    IF s # <<>> /\ s[Len(s)] = SP THEN TrimRight(SubSeq(s, 1, Len(s) - 1)) ELSE s

\* strings.TrimSpace
TrimSpace(s) == TrimRight(TrimLeft(s))

RECURSIVE Itoa(_)
\* the %d verb of fmt.Sprintf, for n >= 0
Itoa(n) == IF n < 10 THEN <<Digitos[n + 1]>> ELSE Itoa(n \div 10) \o <<Digitos[(n % 10) + 1]>>

DigitoVal(ch) == CHOOSE d \in 0..9 : Digitos[d + 1] = ch
EhDigito(ch) == \E d \in 0..9 : Digitos[d + 1] = ch

RECURSIVE DigitosVal(_)
DigitosVal(s) ==
    IF s = <<>> THEN 0 ELSE 10 * DigitosVal(SubSeq(s, 1, Len(s) - 1)) + DigitoVal(s[Len(s)])

\* strconv.Atoi: an optional sign and at least one decimal digit
Atoi(s) ==
    LET corpo == IF s # <<>> /\ Head(s) \in {"+", "-"} THEN Tail(s) ELSE s
        neg == s # <<>> /\ Head(s) = "-"
    IN  IF corpo # <<>> /\ \A i \in 1..Len(corpo) : EhDigito(corpo[i])
        THEN [err |-> FALSE, v |-> IF neg THEN 0 - DigitosVal(corpo) ELSE DigitosVal(corpo)]
        ELSE [err |-> TRUE, v |-> 0]

\* strconv.ParseFloat(s, 64) on integer literals and on the special value
\* "NaN", which it accepts without error
ParseFloat(s) ==
    IF s = <<"N", "a", "N">>
    THEN [err |-> FALSE, f |-> [nan |-> TRUE, v |-> 0]]
    ELSE LET a == Atoi(s) IN [err |-> a.err, f |-> [nan |-> FALSE, v |-> a.v]]

\* float64 comparisons: every comparison with NaN is false
FloatLeqZero(f) == ~f.nan /\ f.v <= 0
FloatGtZero(f) == ~f.nan /\ f.v > 0

\* ------------------------------------------------------------ the record
\* type Carro
Carro(id, marca, modelo, ano, cor, preco, pais, data) ==
    [ID |-> id, Marca |-> marca, Modelo |-> modelo, Ano |-> ano, Cor |-> cor,
     Preco |-> preco, PaisOrigem |-> pais, DataCadastro |-> data]

\* fmt.Sprintf("car_%d", time.Now().UnixNano())
GerarID(t) == <<"c", "a", "r", "_">> \o Itoa(t)

\* time.Now().Format("2006-01-02"): the calendar day of the reading
FormatarData(t) == <<"d", "-">> \o Itoa(t \div NanosPorDia)

\* --------------------------------------------------------------- the map
MapPut(m, k, v) == [x \in (DOMAIN m) \cup {k} |-> IF x = k THEN v ELSE m[x]]
MapDelete(m, k) == [x \in (DOMAIN m) \ {k} |-> m[x]]
MapVazio == [x \in {} |-> 0]

\* a Go slice: nil or not, and its elements
SliceNil == [nil |-> TRUE, items |-> <<>>]
SliceVazio == [nil |-> FALSE, items |-> <<>>]
\* an append that puts the new element first
Append1_NoInicio(s, x) == [nil |-> FALSE, items |-> <<x>> \o s.items]

\* append(s, x): the result is never nil
Append1(s, x) == [nil |-> FALSE, items |-> Append(s.items, x)]

IdsDe(items) == {items[i].ID : i \in 1..Len(items)}

\* ----------------------------------------------------------- persistence
\* the JSON object json.MarshalIndent writes for a Carro; string values are
\* coerced to valid UTF-8, each invalid byte becoming U+FFFD
ToValidUTF8(s) == [i \in 1..Len(s) |-> IF s[i] = BAD THEN REPL ELSE s[i]]

MarshalCarro(c) ==
    [id |-> ToValidUTF8(c.ID), marca |-> ToValidUTF8(c.Marca),
     modelo |-> ToValidUTF8(c.Modelo), ano |-> c.Ano, cor |-> ToValidUTF8(c.Cor),
     preco |-> c.Preco.v, pais_origem |-> ToValidUTF8(c.PaisOrigem),
     data_cadastro |-> ToValidUTF8(c.DataCadastro)]

\* json.Unmarshal of one object into a Carro
UnmarshalCarro(j) ==
    Carro(j.id, j.marca, j.modelo, j.ano, j.cor, [nan |-> FALSE, v |-> j.preco],
          j.pais_origem, j.data_cadastro)

\* the content of the file at arquivoJSON
DocAusente == [kind |-> "ausente", recs |-> <<>>]
DocMalformado == [kind |-> "malformado", recs |-> <<>>]
DocNull == [kind |-> "null", recs |-> <<>>]
DocArray(recs) == [kind |-> "array", recs |-> recs]

\* json.MarshalIndent(c.carros, "", "  "): a nil slice is written as null;
\* a NaN is an unsupported value
MarshalIndent(s) ==
    IF \E i \in 1..Len(s.items) : s.items[i].Preco.nan
    THEN [err |-> TRUE, doc |-> DocNull]
    ELSE [err |-> FALSE,
          doc |-> IF s.nil THEN DocNull
                  ELSE DocArray([i \in 1..Len(s.items) |-> MarshalCarro(s.items[i])])]

ResultadosEscrita == {"ok", "erro_abrir", "erro_escrever"}

\* os.WriteFile(c.arquivoJSON, data, 0644): opens with O_TRUNC and writes;
\* a failure of the open leaves the file alone, a failure of the write
\* leaves it truncated or partly written (no longer a JSON document)
WriteFile(arq, doc, w) ==
    CASE w = "ok" -> [err |-> FALSE, arq |-> doc]
      [] w = "erro_abrir" -> [err |-> TRUE, arq |-> arq]
      [] OTHER -> [err |-> TRUE, arq |-> DocMalformado]

\* func (c *CadastroCarros) SalvarJSON() error
SalvarJSON(s, arq, w) ==
    LET m == MarshalIndent(s) IN
    IF m.err THEN [err |-> TRUE, arq |-> arq] ELSE WriteFile(arq, m.doc, w)

RECURSIVE ReconstruirMap(_, _)
\* for _, carro := range carros { c.carrosMap[carro.ID] = carro }
ReconstruirMap(m, items) ==
    IF items = <<>> THEN m
    ELSE ReconstruirMap(MapPut(m, Head(items).ID, Head(items)), Tail(items))

\* func NewCadastroCarros
NewCadastroCarros == [carrosMap |-> MapVazio, carros |-> SliceVazio]

\* a load that treats a missing file like any other read error
CarregarJSON_AusenteErro(reg, arq, leitura) ==
    IF leitura = "erro" \/ arq.kind \in {"ausente", "malformado"}
    THEN [reg |-> reg, err |-> TRUE]
    ELSE LET carrosLidos ==
                 IF arq.kind = "null" THEN SliceNil
                 ELSE [nil |-> FALSE,
                       items |-> [i \in 1..Len(arq.recs) |-> UnmarshalCarro(arq.recs[i])]]
         IN  [reg |-> [carrosMap |-> ReconstruirMap(MapVazio, carrosLidos.items),
                       carros |-> carrosLidos],
              err |-> FALSE]

\* func (c *CadastroCarros) CarregarJSON() error, on registry reg
CarregarJSON(reg, arq, leitura) ==
    IF arq.kind = "ausente" THEN [reg |-> reg, err |-> FALSE]
    ELSE IF leitura = "erro" \/ arq.kind = "malformado" THEN [reg |-> reg, err |-> TRUE]
    ELSE LET carrosLidos ==
                 IF arq.kind = "null" THEN SliceNil
                 ELSE [nil |-> FALSE,
                       items |-> [i \in 1..Len(arq.recs) |-> UnmarshalCarro(arq.recs[i])]]
         IN  [reg |-> [carrosMap |-> ReconstruirMap(MapVazio, carrosLidos.items),
                       carros |-> carrosLidos],
              err |-> FALSE]

\* ------------------------------------------------------------------ state
VARIABLES
    carrosMap,    \* c.carrosMap
    carros,       \* c.carros
    mu,           \* c.mu: [w |-> holder of the write lock or 0, r |-> read holders]
    arquivoJSON,  \* the content of the file named by c.arquivoJSON
    nano,         \* the last reading of time.Now().UnixNano()
    fase,         \* "inicio" before main runs, "loop" in the command loop, "fim" after exit
    lastOp,       \* the last command main ran and what it reported
    falhas,       \* I/O failures so far
    ops,          \* commands read by main so far
    pc,           \* where each concurrent caller is
    loc           \* each concurrent caller's local variables

vars == <<carrosMap, carros, mu, arquivoJSON, nano, fase, lastOp, falhas, ops, pc, loc>>

\* the goroutine of main
Principal == 0

\* ------------------------------------------------------------ sync.RWMutex
MuLivre == [w |-> 0 - 1, r |-> {}]
PodeLock(m) == m.w = 0 - 1 /\ m.r = {}
\* a read lock that does not wait for the writer
PodeRLock_SemEspera(m) == m.r = m.r
\* RLock waits while a writer holds the lock
PodeRLock(m) == m.w = 0 - 1
Lock(m, p) == [m EXCEPT !.w = p]
\* an Unlock that releases nothing
Unlock_SemEfeito(m) == m
Unlock(m) == [m EXCEPT !.w = 0 - 1]
RLock(m, p) == [m EXCEPT !.r = @ \cup {p}]
RUnlock(m, p) == [m EXCEPT !.r = @ \ {p}]

\* --------------------------------------------------------------- inputs
TextoVazio == <<>>
NaN == <<"N", "a", "N">>

\* lines typed at the prompts of AdicionarCarro that pass every check
EntradaBase ==
    [marca |-> <<"a">>, modelo |-> <<"m">>, ano |-> Itoa(AnoAtual + 1),
     cor |-> TextoVazio, preco |-> <<"1">>, pais |-> <<"p">>]

EntradasValidas ==
    {EntradaBase,
     [EntradaBase EXCEPT !.marca = <<SP, BAD>>, !.cor = <<"c">>],
     [EntradaBase EXCEPT !.preco = NaN]}

\* lines that break one rule each
EntradasInvalidas ==
    {[EntradaBase EXCEPT !.marca = x] : x \in {TextoVazio, <<SP>>}}
    \cup {[EntradaBase EXCEPT !.modelo = TextoVazio]}
    \cup {[EntradaBase EXCEPT !.ano = x] :
            x \in {TextoVazio, <<"x">>, <<"0">>, <<"-", "1">>, Itoa(AnoAtual + 2)}}
    \cup {[EntradaBase EXCEPT !.preco = x] :
            x \in {TextoVazio, <<"x">>, <<"0">>, <<"-", "1">>}}
    \cup {[EntradaBase EXCEPT !.pais = TextoVazio]}

EntradasAdicionar == EntradasValidas \cup EntradasInvalidas

EntradaEmBranco ==
    [marca |-> TextoVazio, modelo |-> TextoVazio, ano |-> TextoVazio,
     cor |-> TextoVazio, preco |-> TextoVazio, pais |-> TextoVazio]

\* lines typed at the prompts of AtualizarCarro: nothing, one field, or
\* several fields of which some are refused
EntradasAtualizar ==
    {EntradaEmBranco,
     [EntradaEmBranco EXCEPT !.marca = <<"b">>],
     [EntradaEmBranco EXCEPT !.modelo = <<"n">>],
     [EntradaEmBranco EXCEPT !.ano = <<"1">>],
     [EntradaEmBranco EXCEPT !.cor = <<"c">>],
     [EntradaEmBranco EXCEPT !.preco = <<"2">>],
     [EntradaEmBranco EXCEPT !.pais = <<"q">>],
     [EntradaEmBranco EXCEPT !.marca = <<"b", SP>>, !.ano = <<"0">>, !.preco = NaN],
     [EntradaEmBranco EXCEPT !.ano = Itoa(AnoAtual + 2), !.preco = <<"x">>, !.pais = <<"q">>],
     [EntradaEmBranco EXCEPT !.marca = <<SP>>, !.ano = <<"x">>, !.preco = <<"0">>,
                             !.cor = <<"c">>]}

\* an identifier nobody was given
IdDesconhecido == <<"z">>

\* identifiers a caller may name: those of the registry and one more
IdsConhecidos == DOMAIN carrosMap \cup {IdDesconhecido}

\* ------------------------------------------------- AdicionarCarro, pieces
\* the year check off by one: 0 passes
ValidarEntrada_AnoZero(ent) ==
    LET ano == Atoi(TrimSpace(ent.ano))
        preco == ParseFloat(TrimSpace(ent.preco))
    IN  IF TrimSpace(ent.marca) = <<>> THEN [ok |-> FALSE, erro |-> "marca", lidas |-> 1]
        ELSE IF TrimSpace(ent.modelo) = <<>>
        THEN [ok |-> FALSE, erro |-> "modelo", lidas |-> 2]
        ELSE IF ano.err \/ ano.v < 0 \/ ano.v > AnoAtual + 1
        THEN [ok |-> FALSE, erro |-> "ano", lidas |-> 3]
        ELSE IF preco.err \/ FloatLeqZero(preco.f)
        THEN [ok |-> FALSE, erro |-> "preco", lidas |-> 5]
        ELSE IF TrimSpace(ent.pais) = <<>>
        THEN [ok |-> FALSE, erro |-> "pais", lidas |-> 6]
        ELSE [ok |-> TRUE, erro |-> "", lidas |-> 6]

\* lines 61-101: the prompts in order, each check returning early
ValidarEntrada(ent) ==
    LET ano == Atoi(TrimSpace(ent.ano))
        preco == ParseFloat(TrimSpace(ent.preco))
    IN  IF TrimSpace(ent.marca) = <<>> THEN [ok |-> FALSE, erro |-> "marca", lidas |-> 1]
        ELSE IF TrimSpace(ent.modelo) = <<>>
        THEN [ok |-> FALSE, erro |-> "modelo", lidas |-> 2]
        ELSE IF ano.err \/ ano.v <= 0 \/ ano.v > AnoAtual + 1
        THEN [ok |-> FALSE, erro |-> "ano", lidas |-> 3]
        ELSE IF preco.err \/ FloatLeqZero(preco.f)
        THEN [ok |-> FALSE, erro |-> "preco", lidas |-> 5]
        ELSE IF TrimSpace(ent.pais) = <<>>
        THEN [ok |-> FALSE, erro |-> "pais", lidas |-> 6]
        ELSE [ok |-> TRUE, erro |-> "", lidas |-> 6]

\* lines 104-116
NovoCarro(ent, t) ==
    Carro(GerarID(t), TrimSpace(ent.marca), TrimSpace(ent.modelo),
          Atoi(TrimSpace(ent.ano)).v, TrimSpace(ent.cor),
          ParseFloat(TrimSpace(ent.preco)).f, TrimSpace(ent.pais), FormatarData(t))

\* the insert that forgets the map
InserirCarro_SemMap(reg, novoCarro) ==
    [carrosMap |-> reg.carrosMap, carros |-> Append1(reg.carros, novoCarro)]

\* lines 121-122
InserirCarro(reg, novoCarro) ==
    [carrosMap |-> MapPut(reg.carrosMap, novoCarro.ID, novoCarro),
     carros |-> Append1(reg.carros, novoCarro)]

\* --------------------------------------------------- RemoverCarro, pieces
RECURSIVE FiltrarSlice(_, _, _)
\* lines 177-182: var novosCarros []Carro, then append what is kept
FiltrarSlice(novos, items, id) ==
    IF items = <<>> THEN novos
    ELSE FiltrarSlice(IF Head(items).ID # id THEN Append1(novos, Head(items)) ELSE novos,
                      Tail(items), id)

\* lines 176-183
ExcluirCarro(reg, id) ==
    [carrosMap |-> MapDelete(reg.carrosMap, id),
     carros |-> FiltrarSlice(SliceNil, reg.carros.items, id)]

\* ------------------------------------------------- AtualizarCarro, pieces
\* lines 218-242: updateOptional with the validator of Marca, Modelo and
\* País de Origem; a blank line keeps the current value
TextoObrigatorio(atual, linha) ==
    LET opt == TrimSpace(linha) IN IF opt = <<>> THEN atual ELSE opt

\* line 270: the validator of Cor accepts everything, a blank line still keeps
TextoOpcional(atual, linha) ==
    LET opt == TrimSpace(linha) IN IF opt = <<>> THEN atual ELSE opt

\* lines 259-267
NovoAno(atual, linha) ==
    LET anoStr == TrimSpace(linha)
        a == Atoi(anoStr)
    IN  IF anoStr # <<>> /\ ~a.err /\ a.v > 0 /\ a.v <= AnoAtual + 1 THEN a.v ELSE atual

\* lines 273-281
NovoPreco(atual, linha) ==
    LET precoStr == TrimSpace(linha)
        p == ParseFloat(precoStr)
    IN  IF precoStr # <<>> /\ ~p.err /\ FloatGtZero(p.f) THEN p.f ELSE atual

\* lines 244-289: the local copy carro after the six prompts
EditarCarro(carro, ent) ==
    [carro EXCEPT !.Marca = TextoObrigatorio(@, ent.marca),
                  !.Modelo = TextoObrigatorio(@, ent.modelo),
                  !.Ano = NovoAno(@, ent.ano),
                  !.Cor = TextoOpcional(@, ent.cor),
                  !.Preco = NovoPreco(@, ent.preco),
                  !.PaisOrigem = TextoObrigatorio(@, ent.pais)]

RECURSIVE SubstituirSlice(_, _, _, _)
\* lines 293-300
SubstituirSlice(novos, items, id, carro) ==
    IF items = <<>> THEN novos
    ELSE SubstituirSlice(Append1(novos, IF Head(items).ID = id THEN carro ELSE Head(items)),
                         Tail(items), id, carro)

\* lines 292-301
GravarCarro(reg, id, carro) ==
    [carrosMap |-> MapPut(reg.carrosMap, id, carro),
     carros |-> SubstituirSlice(SliceNil, reg.carros.items, id, carro)]

\* lines 153-157: the lookup of BuscarCarro
Buscar(m, id) ==
    IF id \in DOMAIN m THEN [existe |-> TRUE, carro |-> <<m[id]>>]
    ELSE [existe |-> FALSE, carro |-> <<>>]

\* ------------------------------------------------------- initial files
RegistroA == Carro(GerarID(1), <<"a">>, <<"m">>, 1, <<>>, [nan |-> FALSE, v |-> 1],
                   <<"p">>, FormatarData(1))
RegistroB == [RegistroA EXCEPT !.Marca = <<"b">>, !.Preco = [nan |-> FALSE, v |-> 2]]
RegistroC == [RegistroA EXCEPT !.ID = GerarID(0), !.DataCadastro = FormatarData(0)]

\* a record typed into the file by hand: json.Unmarshal checks no field
RegistroD == Carro(<<"h">>, <<>>, <<>>, 0, <<>>, [nan |-> FALSE, v |-> 0], <<>>, <<>>)

\* what the file may hold when the program starts: nothing, text that is
\* not JSON, null, arrays written by an earlier run or by hand (one names
\* the same identifier twice, one holds a record no create would accept)
ArquivosIniciais ==
    {DocAusente, DocMalformado, DocNull, DocArray(<<>>),
     DocArray(<<MarshalCarro(RegistroA)>>),
     DocArray(<<MarshalCarro(RegistroC), MarshalCarro(RegistroA)>>),
     DocArray(<<MarshalCarro(RegistroA), MarshalCarro(RegistroB)>>),
     DocArray(<<MarshalCarro(RegistroD)>>)}

Chamadores == {1, 2}

\* what a command was given and what it reported: its name, the identifier
\* it named, the message it ended with, the record it built or showed, the
\* number of prompt lines it read and those lines
Relato(op, id, res, carro, lidas, ent) ==
    [op |-> op, id |-> id, res |-> res, carro |-> carro, lidas |-> lidas, ent |-> ent]

LocVazio == [id |-> <<>>, carro |-> <<>>]

Init ==
    /\ carrosMap = NewCadastroCarros.carrosMap
    /\ carros = NewCadastroCarros.carros
    /\ mu = MuLivre
    /\ arquivoJSON \in ArquivosIniciais
    /\ nano = 1
    /\ fase = "inicio"
    /\ lastOp = Relato("none", <<>>, "", <<>>, 0, EntradaEmBranco)
    /\ falhas = 0
    /\ ops = 0
    /\ pc = [p \in Chamadores |-> "idle"]
    /\ loc = [p \in Chamadores |-> LocVazio]

\* the outcomes an I/O call may still have
EscritasPossiveis == IF falhas < MaxFalhas THEN ResultadosEscrita ELSE {"ok"}
LeiturasPossiveis == IF falhas < MaxFalhas THEN {"ok", "erro"} ELSE {"ok"}
ContarFalha(x) == IF x = "ok" THEN falhas ELSE falhas + 1

\* lines 371-386: main reads one more command line
Comando == fase = "loop" /\ ops < MaxOps /\ ops' = ops + 1

\* time.Now().UnixNano(): the last reading again or a later one
LeiturasRelogio == {t \in {nano, nano + 1} : t <= MaxNano}

Reg == [carrosMap |-> carrosMap, carros |-> carros]

\* ------------------------------------------- the commands of main, whole
\* lines 354-365: a run of the program starts with an empty registry and
\* loads the file
Main ==
    /\ fase # "loop"
    /\ \E leitura \in LeiturasPossiveis :
         LET r == CarregarJSON(NewCadastroCarros, arquivoJSON, leitura) IN
         /\ carrosMap' = r.reg.carrosMap
         /\ carros' = r.reg.carros
         /\ lastOp' = Relato("load", <<>>, IF r.err THEN "erro" ELSE "ok", <<>>, 0,
                             EntradaEmBranco)
         /\ falhas' = ContarFalha(leitura)
    /\ fase' = "loop"
    /\ mu' = MuLivre
    /\ UNCHANGED <<arquivoJSON, nano, ops, pc, loc>>

\* lines 47-129
AdicionarCarro ==
    /\ Comando
    /\ \E ent \in EntradasAdicionar :
         LET v == ValidarEntrada(ent) IN
         IF ~v.ok
         THEN /\ lastOp' = Relato("add", <<>>, v.erro, <<>>, v.lidas, ent)
              /\ UNCHANGED <<carrosMap, carros, mu, arquivoJSON, nano, falhas>>
         ELSE /\ Len(carros.items) < MaxCarros
              /\ PodeLock(mu)
              /\ \E t \in LeiturasRelogio, w \in EscritasPossiveis :
                   LET novoCarro == NovoCarro(ent, t)
                       reg == InserirCarro(Reg, novoCarro)
                       sv == SalvarJSON(reg.carros, arquivoJSON, w)
                   IN  /\ carrosMap' = reg.carrosMap
                       /\ carros' = reg.carros
                       /\ arquivoJSON' = sv.arq
                       /\ mu' = Unlock(Lock(mu, Principal))
                       /\ nano' = t
                       /\ falhas' = ContarFalha(w)
                       /\ lastOp' = Relato("add", novoCarro.ID,
                                           IF sv.err THEN "aviso" ELSE "ok",
                                           <<novoCarro>>, v.lidas, ent)
    /\ UNCHANGED <<fase, pc, loc>>

\* lines 132-146
ListarCarros ==
    /\ Comando
    /\ PodeRLock(mu)
    /\ mu' = RUnlock(RLock(mu, Principal), Principal)
    /\ lastOp' = Relato("list", <<>>, IF Len(carros.items) = 0 THEN "vazio" ELSE "ok",
                        <<>>, 0, EntradaEmBranco)
    /\ UNCHANGED <<carrosMap, carros, arquivoJSON, nano, fase, falhas, pc, loc>>

\* lines 149-162
BuscarCarro(id) ==
    /\ Comando
    /\ PodeRLock(mu)
    /\ mu' = RUnlock(RLock(mu, Principal), Principal)
    /\ LET b == Buscar(carrosMap, id) IN
       lastOp' = Relato("find", id, IF b.existe THEN "ok" ELSE "nao_encontrado",
                        b.carro, 0, EntradaEmBranco)
    /\ UNCHANGED <<carrosMap, carros, arquivoJSON, nano, fase, falhas, pc, loc>>

\* a not-found return that forgets the deferred Unlock
NaoEncontrado_SemUnlock(op, id) ==
    /\ mu' = Lock(mu, Principal)
    /\ lastOp' = Relato(op, id, "nao_encontrado", <<>>, 0, EntradaEmBranco)
    /\ UNCHANGED <<carrosMap, carros, arquivoJSON, falhas>>

\* lines 169-173 and 197-201: the identifier is not in carrosMap; the
\* deferred Unlock runs on return
NaoEncontrado(op, id) ==
    /\ mu' = Unlock(Lock(mu, Principal))
    /\ lastOp' = Relato(op, id, "nao_encontrado", <<>>, 0, EntradaEmBranco)
    /\ UNCHANGED <<carrosMap, carros, arquivoJSON, falhas>>

\* lines 165-190
RemoverCarro(id) ==
    /\ Comando
    /\ PodeLock(mu)
    /\ IF ~Buscar(carrosMap, id).existe
       THEN NaoEncontrado("remove", id)
       ELSE \E w \in EscritasPossiveis :
              LET reg == ExcluirCarro(Reg, id)
                  sv == SalvarJSON(reg.carros, arquivoJSON, w)
              IN  /\ carrosMap' = reg.carrosMap
                  /\ carros' = reg.carros
                  /\ arquivoJSON' = sv.arq
                  /\ mu' = Unlock(Lock(mu, Principal))
                  /\ falhas' = ContarFalha(w)
                  /\ lastOp' = Relato("remove", id, IF sv.err THEN "aviso" ELSE "ok",
                                      <<>>, 0, EntradaEmBranco)
    /\ UNCHANGED <<nano, fase, pc, loc>>

\* lines 193-309
AtualizarCarro(id) ==
    /\ Comando
    /\ PodeLock(mu)
    /\ IF ~Buscar(carrosMap, id).existe
       THEN NaoEncontrado("update", id)
       ELSE \E ent \in EntradasAtualizar, w \in EscritasPossiveis :
              LET carro == EditarCarro(carrosMap[id], ent)
                  reg == GravarCarro(Reg, id, carro)
                  sv == SalvarJSON(reg.carros, arquivoJSON, w)
              IN  /\ carrosMap' = reg.carrosMap
                  /\ carros' = reg.carros
                  /\ arquivoJSON' = sv.arq
                  /\ mu' = Unlock(Lock(mu, Principal))
                  /\ falhas' = ContarFalha(w)
                  /\ lastOp' = Relato("update", id, IF sv.err THEN "aviso" ELSE "ok",
                                      <<carro>>, 6, ent)
    /\ UNCHANGED <<nano, fase, pc, loc>>

\* lines 410-412: exit ends the run; what the run held in memory is lost
\* when the next run builds its registry
Sair ==
    /\ Comando
    /\ fase' = "fim"
    /\ lastOp' = Relato("exit", <<>>, "", <<>>, 0, EntradaEmBranco)
    /\ UNCHANGED <<carrosMap, carros, mu, arquivoJSON, nano, falhas, pc, loc>>

Next ==
    \/ Main
    \/ AdicionarCarro
    \/ ListarCarros
    \/ \E id \in IdsConhecidos : BuscarCarro(id)
    \/ \E id \in IdsConhecidos : RemoverCarro(id)
    \/ \E id \in IdsConhecidos : AtualizarCarro(id)
    \/ Sair

Spec == Init /\ [][Next]_vars

\* ------------------------------------- concurrent callers, step by step
\* The same methods called by several goroutines on one registry: each
\* statement that takes or releases c.mu, reads or writes carrosMap, carros
\* or the file is a step of its caller.
Adicionando == {p \in Chamadores : pc[p] \in {"add_lock", "add_map", "add_slice"}}

Passo(p, de, para) == pc[p] = de /\ pc' = [pc EXCEPT ![p] = para]

\* lines 47-116: the prompts, the checks, the identifier and the record, all
\* before the lock is asked for
CAdicionar(p) ==
    /\ pc[p] = "idle"
    /\ Comando
    /\ \E ent \in EntradasAdicionar :
         IF ~ValidarEntrada(ent).ok
         THEN UNCHANGED <<nano, pc, loc>>
         ELSE /\ Len(carros.items) + Cardinality(Adicionando) < MaxCarros
              /\ \E t \in LeiturasRelogio :
                   /\ nano' = t
                   /\ loc' = [loc EXCEPT ![p] = [id |-> GerarID(t),
                                                 carro |-> <<NovoCarro(ent, t)>>]]
                   /\ pc' = [pc EXCEPT ![p] = "add_lock"]
    /\ UNCHANGED <<carrosMap, carros, mu, arquivoJSON, fase, lastOp, falhas>>

\* lines 166, 194: a command that names an identifier asks for the lock
CChamar(p) ==
    /\ pc[p] = "idle"
    /\ Comando
    /\ \E id \in IdsConhecidos, para \in {"find_lock", "rm_lock", "up_lock"} :
         /\ loc' = [loc EXCEPT ![p] = [id |-> id, carro |-> <<>>]]
         /\ pc' = [pc EXCEPT ![p] = para]
    /\ UNCHANGED <<carrosMap, carros, mu, arquivoJSON, nano, fase, lastOp, falhas>>

\* line 132
CListar(p) ==
    /\ Comando
    /\ Passo(p, "idle", "list_lock")
    /\ UNCHANGED <<carrosMap, carros, mu, arquivoJSON, nano, fase, lastOp, falhas, loc>>

\* lines 118, 166, 194: c.mu.Lock()
CLock(p) ==
    /\ PodeLock(mu)
    /\ mu' = Lock(mu, p)
    /\ \/ Passo(p, "add_lock", "add_map")
       \/ Passo(p, "rm_lock", "rm_busca")
       \/ Passo(p, "up_lock", "up_busca")
    /\ UNCHANGED <<carrosMap, carros, arquivoJSON, nano, fase, lastOp, falhas, ops, loc>>

\* lines 133, 150: c.mu.RLock()
CRLock(p) ==
    /\ PodeRLock(mu)
    /\ mu' = RLock(mu, p)
    /\ \/ Passo(p, "list_lock", "list_ler")
       \/ Passo(p, "find_lock", "find_ler")
    /\ UNCHANGED <<carrosMap, carros, arquivoJSON, nano, fase, lastOp, falhas, ops, loc>>

\* lines 136-145 and 153-161, then the deferred RUnlock
CLer(p) ==
    /\ \/ /\ Passo(p, "list_ler", "idle")
          /\ UNCHANGED loc
       \/ /\ Passo(p, "find_ler", "idle")
          /\ loc' = [loc EXCEPT ![p].carro = Buscar(carrosMap, loc[p].id).carro]
    /\ mu' = RUnlock(mu, p)
    /\ UNCHANGED <<carrosMap, carros, arquivoJSON, nano, fase, lastOp, falhas, ops>>

\* lines 169-173 and 197-201: the lookup under the lock
CBuscar(p) ==
    /\ LET b == Buscar(carrosMap, loc[p].id) IN
       \/ /\ ~b.existe
          /\ Passo(p, "rm_busca", "rm_unlock") \/ Passo(p, "up_busca", "up_unlock")
          /\ UNCHANGED loc
       \/ /\ b.existe
          /\ Passo(p, "rm_busca", "rm_map")
          /\ UNCHANGED loc
       \/ /\ b.existe
          /\ Passo(p, "up_busca", "up_prompts")
          /\ loc' = [loc EXCEPT ![p].carro = b.carro]
    /\ UNCHANGED <<carrosMap, carros, mu, arquivoJSON, nano, fase, lastOp, falhas, ops>>

\* the lines a concurrent caller types at the prompts of AtualizarCarro
EntradasAtualizarConc ==
    {EntradaEmBranco,
     [EntradaEmBranco EXCEPT !.marca = <<"b">>],
     [EntradaEmBranco EXCEPT !.ano = <<"0">>, !.preco = <<"2">>, !.pais = <<"q">>]}

\* lines 203-289: the six prompts of AtualizarCarro, read with the lock held
CPrompts(p) ==
    /\ Passo(p, "up_prompts", "up_map")
    /\ \E ent \in EntradasAtualizarConc :
         loc' = [loc EXCEPT ![p].carro = <<EditarCarro(loc[p].carro[1], ent)>>]
    /\ UNCHANGED <<carrosMap, carros, mu, arquivoJSON, nano, fase, lastOp, falhas, ops>>

\* lines 121, 176, 292: the write to carrosMap
CMap(p) ==
    /\ \/ /\ Passo(p, "add_map", "add_slice")
          /\ carrosMap' = InserirCarro(Reg, loc[p].carro[1]).carrosMap
       \/ /\ Passo(p, "rm_map", "rm_slice")
          /\ carrosMap' = ExcluirCarro(Reg, loc[p].id).carrosMap
       \/ /\ Passo(p, "up_map", "up_slice")
          /\ carrosMap' = GravarCarro(Reg, loc[p].id, loc[p].carro[1]).carrosMap
    /\ UNCHANGED <<carros, mu, arquivoJSON, nano, fase, lastOp, falhas, ops, loc>>

\* lines 122, 177-183, 293-301: the write to carros
CSlice(p) ==
    /\ \/ /\ Passo(p, "add_slice", "add_save")
          /\ carros' = InserirCarro(Reg, loc[p].carro[1]).carros
       \/ /\ Passo(p, "rm_slice", "rm_save")
          /\ carros' = ExcluirCarro(Reg, loc[p].id).carros
       \/ /\ Passo(p, "up_slice", "up_save")
          /\ carros' = GravarCarro(Reg, loc[p].id, loc[p].carro[1]).carros
    /\ UNCHANGED <<carrosMap, mu, arquivoJSON, nano, fase, lastOp, falhas, ops, loc>>

\* lines 126, 187, 306: c.SalvarJSON(), which takes no lock of its own
CSalvar(p) ==
    /\ \/ Passo(p, "add_save", "add_unlock")
       \/ Passo(p, "rm_save", "rm_unlock")
       \/ Passo(p, "up_save", "up_unlock")
    /\ \E w \in EscritasPossiveis :
         /\ arquivoJSON' = SalvarJSON(carros, arquivoJSON, w).arq
         /\ falhas' = ContarFalha(w)
    /\ UNCHANGED <<carrosMap, carros, mu, nano, fase, lastOp, ops, loc>>

\* lines 119, 167, 195: the deferred c.mu.Unlock()
CUnlock(p) ==
    /\ \/ Passo(p, "add_unlock", "idle")
       \/ Passo(p, "rm_unlock", "idle")
       \/ Passo(p, "up_unlock", "idle")
    /\ mu' = Unlock(mu)
    /\ UNCHANGED <<carrosMap, carros, arquivoJSON, nano, fase, lastOp, falhas, ops, loc>>

NextConc ==
    \/ Main
    \/ \E p \in Chamadores :
         \/ CAdicionar(p)
         \/ CChamar(p)
         \/ CListar(p)
         \/ CLock(p)
         \/ CRLock(p)
         \/ CLer(p)
         \/ CBuscar(p)
         \/ CPrompts(p)
         \/ CMap(p)
         \/ CSlice(p)
         \/ CSalvar(p)
         \/ CUnlock(p)

\* the concurrent callers start after main has loaded one of these files
ArquivosConc ==
    {DocAusente,
     DocArray(<<MarshalCarro(RegistroC), MarshalCarro(RegistroA)>>),
     DocArray(<<MarshalCarro(RegistroA), MarshalCarro(RegistroB)>>)}

InitConc == Init /\ arquivoJSON \in ArquivosConc

SpecConc == InitConc /\ [][NextConc]_vars

\* the statements a caller runs by itself once its method was called: the
\* scheduler lets each of them run; the arrival of a line at a prompt
\* (CPrompts) and the choice of a new command are not the scheduler's
PassoProprio(p) ==
    \/ CLock(p)
    \/ CRLock(p)
    \/ CLer(p)
    \/ CBuscar(p)
    \/ CMap(p)
    \/ CSlice(p)
    \/ CSalvar(p)
    \/ CUnlock(p)

EscalonamentoJusto == \A p \in Chamadores : WF_vars(PassoProprio(p))

SpecConcJusta == SpecConc /\ EscalonamentoJusto

\* ================================================================ claims
Sucesso(r) == r \in {"ok", "aviso"}
Ocorrencias(items, id) == Cardinality({i \in 1..Len(items) : items[i].ID = id})
SemRepeticao(items) == \A i \in 1..Len(items) : Ocorrencias(items, items[i].ID) = 1
Ultimo(items) == items[Len(items)]

\* C1: in every state of the registry the keys of carrosMap are the
\* identifiers of carros, each identifier occurs once in carros, and the map
\* holds under each identifier the record carros holds.
C1_VistasEmSincronia ==
    /\ DOMAIN carrosMap = IdsDe(carros.items)
    /\ \A i \in 1..Len(carros.items) :
         /\ Ocorrencias(carros.items, carros.items[i].ID) = 1
         /\ carrosMap[carros.items[i].ID] = carros.items[i]

\* C2: every successful AdicionarCarro makes the listing one record longer
\* and keeps the identifiers pairwise distinct, the clock being only
\* non-decreasing.
C2_CriacoesDistintas ==
    [][(lastOp'.op = "add" /\ Sucesso(lastOp'.res))
         => /\ Len(carros'.items) = Len(carros.items) + 1
            /\ (SemRepeticao(carros.items) => SemRepeticao(carros'.items))]_vars

\* C3: when the file holds what SalvarJSON writes for the records in memory,
\* CarregarJSON on a new registry yields the same records in the same order,
\* and a map that indexes exactly those records.
C3_IdaEVolta ==
    [][(/\ lastOp'.op = "load"
        /\ lastOp'.res = "ok"
        /\ ~MarshalIndent(carros).err
        /\ arquivoJSON = MarshalIndent(carros).doc)
         => /\ carros'.items = carros.items
            /\ DOMAIN carrosMap' = IdsDe(carros.items)
            /\ \A id \in DOMAIN carrosMap' :
                 \E i \in 1..Len(carros.items) : carros.items[i] = carrosMap'[id]]_vars

\* C4: RemoverCarro(id) of an identifier of the registry leaves id out of the
\* map and of the listing, the listing exactly one record shorter, and every
\* other record as it was in both views.
C4_RemocaoExata ==
    [][(lastOp'.op = "remove" /\ Sucesso(lastOp'.res))
         => /\ ~Buscar(carrosMap', lastOp'.id).existe
            /\ lastOp'.id \notin IdsDe(carros'.items)
            /\ Len(carros'.items) = Len(carros.items) - 1
            /\ \A k \in DOMAIN carrosMap \ {lastOp'.id} :
                 k \in DOMAIN carrosMap' /\ carrosMap'[k] = carrosMap[k]
            /\ \A i \in 1..Len(carros.items) :
                 carros.items[i].ID # lastOp'.id
                   => \E j \in 1..Len(carros'.items) : carros'.items[j] = carros.items[i]]_vars

\* a line that supplies no valid value for the field
SemTexto(linha) == TrimSpace(linha) = <<>>
SemAno(linha) ==
    LET a == Atoi(TrimSpace(linha)) IN a.err \/ a.v <= 0 \/ a.v > AnoAtual + 1
SemPreco(linha) ==
    LET f == ParseFloat(TrimSpace(linha)) IN f.err \/ ~FloatGtZero(f.f)

\* the record novo differs from antigo at most in the fields ent supplies
SoCamposFornecidos(antigo, novo, ent) ==
    /\ novo.ID = antigo.ID
    /\ novo.DataCadastro = antigo.DataCadastro
    /\ SemTexto(ent.marca) => novo.Marca = antigo.Marca
    /\ SemTexto(ent.modelo) => novo.Modelo = antigo.Modelo
    /\ SemAno(ent.ano) => novo.Ano = antigo.Ano
    /\ SemTexto(ent.cor) => novo.Cor = antigo.Cor
    /\ SemPreco(ent.preco) => novo.Preco = antigo.Preco
    /\ SemTexto(ent.pais) => novo.PaisOrigem = antigo.PaisOrigem

\* C5: AtualizarCarro(id) of an existing record changes only the fields
\* given a non-blank valid value, never the identifier or the registration
\* date, and leaves every other record as it was in the map and in the slice.
C5_SoCamposFornecidos ==
    [][(lastOp'.op = "update" /\ Sucesso(lastOp'.res))
         => /\ DOMAIN carrosMap' = DOMAIN carrosMap
            /\ \A k \in DOMAIN carrosMap :
                 IF k = lastOp'.id
                 THEN SoCamposFornecidos(carrosMap[k], carrosMap'[k], lastOp'.ent)
                 ELSE carrosMap'[k] = carrosMap[k]
            /\ Len(carros'.items) = Len(carros.items)
            /\ \A i \in 1..Len(carros.items) :
                 IF carros.items[i].ID = lastOp'.id
                 THEN SoCamposFornecidos(carros.items[i], carros'.items[i], lastOp'.ent)
                 ELSE carros'.items[i] = carros.items[i]]_vars

\* C6: right after a successful AdicionarCarro the lookup of the new
\* identifier finds the record just built, with the identifier and the date
\* of the clock reading, and that record is the last of the listing.
C6_BuscaAposCriar ==
    (lastOp.op = "add" /\ Sucesso(lastOp.res))
      => /\ Buscar(carrosMap, lastOp.id) = [existe |-> TRUE, carro |-> lastOp.carro]
         /\ lastOp.carro[1].ID = lastOp.id
         /\ lastOp.id = GerarID(nano)
         /\ lastOp.carro[1].DataCadastro = FormatarData(nano)
         /\ lastOp.carro[1].Marca = TrimSpace(lastOp.ent.marca)
         /\ lastOp.carro[1].PaisOrigem = TrimSpace(lastOp.ent.pais)
         /\ carros.items # <<>>
         /\ Ultimo(carros.items) = lastOp.carro[1]

\* a create after which the registry holds an older record and the new one
C6_Criado == lastOp.op = "add" /\ Sucesso(lastOp.res) /\ Len(carros.items) = 2

\* the lines break a field rule of AdicionarCarro
ViolaRegra(ent) ==
    \/ SemTexto(ent.marca)
    \/ SemTexto(ent.modelo)
    \/ SemTexto(ent.pais)
    \/ SemAno(ent.ano)
    \/ LET f == ParseFloat(TrimSpace(ent.preco)) IN f.err \/ (~f.f.nan /\ f.f.v <= 0)

\* C7: an AdicionarCarro whose lines break a field rule reports the failed
\* check and leaves carrosMap, carros and the file as they were.
C7_CriacaoRejeitada ==
    [][(lastOp'.op = "add" /\ ViolaRegra(lastOp'.ent))
         => /\ lastOp'.res \in {"marca", "modelo", "ano", "preco", "pais"}
            /\ lastOp'.carro = <<>>
            /\ UNCHANGED <<carrosMap, carros, arquivoJSON>>]_vars

\* a create refused for the year after next, the registry holding a record
C7_Rejeitado ==
    /\ lastOp.op = "add"
    /\ lastOp.ent.ano = Itoa(AnoAtual + 2)
    /\ lastOp.res = "ano"
    /\ carros.items # <<>>

\* C8: RemoverCarro and AtualizarCarro of an identifier that is not in the
\* registry report not-found, change neither view nor the file, read no
\* prompt line, release the lock and leave the command loop running.
C8_NaoEncontrado ==
    [][(lastOp'.op \in {"remove", "update"} /\ ~Buscar(carrosMap, lastOp'.id).existe)
         => /\ lastOp'.res = "nao_encontrado"
            /\ UNCHANGED <<carrosMap, carros, arquivoJSON>>
            /\ lastOp'.lidas = 0
            /\ mu' = MuLivre
            /\ fase' = "loop"]_vars

\* an update of an unknown identifier, the registry holding a record
C8_Desconhecido ==
    /\ lastOp.op = "update"
    /\ lastOp.res = "nao_encontrado"
    /\ carros.items # <<>>

\* C9: a mutation whose save fails keeps its change in memory and leaves the
\* file with its previous content; a mutation whose save succeeds leaves in
\* the file the whole sequence in memory.
C9_FalhaAoSalvar ==
    [][(lastOp'.op \in {"add", "remove", "update"})
         => /\ lastOp'.res = "aviso"
                 => /\ arquivoJSON' = arquivoJSON
                    /\ lastOp'.op # "remove" => Buscar(carrosMap', lastOp'.id).existe
                    /\ lastOp'.op = "remove" => ~Buscar(carrosMap', lastOp'.id).existe
            /\ lastOp'.res = "ok" => arquivoJSON' = MarshalIndent(carros').doc]_vars

\* where a caller holds the write lock, where it has changed a view and not
\* yet written the file, and where it holds the read lock
SecaoEscrita(p) ==
    pc[p] \in {"add_map", "add_slice", "add_save", "add_unlock",
               "rm_busca", "rm_map", "rm_slice", "rm_save", "rm_unlock",
               "up_busca", "up_prompts", "up_map", "up_slice", "up_save", "up_unlock"}
EmMutacao(p) ==
    pc[p] \in {"add_slice", "add_save", "rm_slice", "rm_save", "up_slice", "up_save"}
SecaoLeitura(p) == pc[p] \in {"list_ler", "find_ler"}

\* the two views name the same identifiers and every record of the map is a
\* record of the slice
VistasCoerentes ==
    /\ DOMAIN carrosMap = IdsDe(carros.items)
    /\ \A k \in DOMAIN carrosMap :
         \E i \in 1..Len(carros.items) : carros.items[i] = carrosMap[k]

\* C10: while a Create, Update or Delete is between its first change of a
\* view and the end of its file write no other caller is inside a critical
\* section; a caller inside ListarCarros or BuscarCarro sees the two views in
\* step; a reader inside does not keep another reader out.
C10_LeitoresEscritor ==
    /\ \A p \in Chamadores : \A q \in Chamadores \ {p} :
         EmMutacao(p) => ~SecaoEscrita(q) /\ ~SecaoLeitura(q)
    /\ \A p \in Chamadores : \A q \in Chamadores \ {p} :
         SecaoEscrita(p) => ~SecaoEscrita(q) /\ ~SecaoLeitura(q)
    /\ \A p \in Chamadores : SecaoLeitura(p) => VistasCoerentes
    /\ \A p \in Chamadores : \A q \in Chamadores \ {p} :
         (SecaoLeitura(p) /\ pc[q] \in {"list_lock", "find_lock"}) => PodeRLock(mu)

\* a create has written the map and not yet the slice while a reader waits
C10_EscritorSozinho ==
    \E p \in Chamadores : \E q \in Chamadores \ {p} :
      /\ pc[p] = "add_slice"
      /\ DOMAIN carrosMap # IdsDe(carros.items)
      /\ pc[q] \in {"list_lock", "find_lock"}

\* two readers inside at once
DoisLeitores ==
    \E p \in Chamadores : \E q \in Chamadores \ {p} : SecaoLeitura(p) /\ SecaoLeitura(q)

\* a caller has called a method and waits for c.mu
EsperaLock(p) ==
    pc[p] \in {"add_lock", "list_lock", "find_lock", "rm_lock", "up_lock"}

\* C11: under fair scheduling of the callers every operation that waits for
\* the lock gets it, and every ListarCarros, BuscarCarro, RemoverCarro and
\* AdicionarCarro that waits for it completes, whether or not a line arrives
\* at a prompt another caller has open.
C11_SemBloqueio ==
    \A p \in Chamadores :
      /\ EsperaLock(p) ~> ~EsperaLock(p)
      /\ (pc[p] \in {"add_lock", "list_lock", "find_lock", "rm_lock"}) ~> (pc[p] = "idle")

\* the last command was the load of a run that found no file
CarregouSemArquivo ==
    lastOp.op = "load" /\ arquivoJSON.kind = "ausente"

\* C12: CarregarJSON with no file at arquivoJSON returns no error and leaves
\* the registry as NewCadastroCarros built it, carros and carrosMap empty and
\* the file still missing; the next ListarCarros reports an empty registry,
\* the next BuscarCarro finds nothing and the next AdicionarCarro makes the
\* listing hold its record alone.
C12_SemArquivo ==
    [][/\ (lastOp'.op = "load" /\ arquivoJSON.kind = "ausente")
            => /\ lastOp'.res = "ok"
               /\ carros' = NewCadastroCarros.carros
               /\ carros'.items = <<>>
               /\ carrosMap' = MapVazio
               /\ arquivoJSON' = arquivoJSON
       /\ CarregouSemArquivo
            => /\ lastOp'.op = "list" => lastOp'.res = "vazio"
               /\ lastOp'.op = "find" => lastOp'.res = "nao_encontrado"
               /\ (lastOp'.op = "add" /\ Sucesso(lastOp'.res))
                    => /\ carros'.items = lastOp'.carro
                       /\ DOMAIN carrosMap' = {lastOp'.id}]_vars

\* a run has started with no file and an empty registry
C12_Ausente ==
    CarregouSemArquivo /\ lastOp.res = "ok" /\ carros.items = <<>> /\ fase = "loop"

\* the field rules of a record
RegistroValido(c) ==
    /\ c.Marca # <<>>
    /\ c.Modelo # <<>>
    /\ c.PaisOrigem # <<>>
    /\ c.Ano \in 1..(AnoAtual + 1)
    /\ ~c.Preco.nan
    /\ c.Preco.v > 0

\* C13: every record of the registry, in carros and in carrosMap, has a
\* non-empty make, model and country of origin, a year in 1..(current year
\* + 1) and a strictly positive price.
C13_RegistrosValidos ==
    /\ \A i \in 1..Len(carros.items) : RegistroValido(carros.items[i])
    /\ \A k \in DOMAIN carrosMap : RegistroValido(carrosMap[k])

\* what a new registry holds after CarregarJSON reads the file
Decodificado == CarregarJSON(NewCadastroCarros, arquivoJSON, "ok")

\* C14: when an AdicionarCarro, an AtualizarCarro or a RemoverCarro of an
\* existing record has completed with a successful write, the file decodes
\* without error to exactly the records of carros in their order, whatever
\* it held before.
C14_ArquivoEspelho ==
    (lastOp.op \in {"add", "update", "remove"} /\ lastOp.res = "ok")
      => /\ ~Decodificado.err
         /\ arquivoJSON.kind # "ausente"
         /\ Decodificado.reg.carros.items = carros.items

\* the records of items whose identifier is not id, in their order
SemId(items, id) == LET Fica(c) == c.ID # id IN SelectSeq(items, Fica)

CargaFalhou == lastOp.op = "load" /\ lastOp.res = "erro"

\* C16: a CarregarJSON that fails on an unreadable or malformed file leaves
\* the registry empty and the file as it was, and the command that follows
\* in the same run does not write over that file.
C16_FalhaFechada ==
    [][/\ (lastOp'.op = "load" /\ lastOp'.res = "erro")
            => /\ carros'.items = <<>>
               /\ carrosMap' = MapVazio
               /\ arquivoJSON' = arquivoJSON
       /\ (CargaFalhou /\ lastOp'.op # "load") => arquivoJSON' = arquivoJSON]_vars

\* novo takes from ent every valid value and keeps from antigo the year and
\* the price whose line is not blank and is refused
CampoACampo(antigo, novo, ent) ==
    /\ ~SemTexto(ent.marca) => novo.Marca = TrimSpace(ent.marca)
    /\ ~SemTexto(ent.modelo) => novo.Modelo = TrimSpace(ent.modelo)
    /\ ~SemTexto(ent.cor) => novo.Cor = TrimSpace(ent.cor)
    /\ ~SemTexto(ent.pais) => novo.PaisOrigem = TrimSpace(ent.pais)
    /\ ~SemAno(ent.ano) => novo.Ano = Atoi(TrimSpace(ent.ano)).v
    /\ (SemAno(ent.ano) /\ ~SemTexto(ent.ano)) => novo.Ano = antigo.Ano
    /\ ~SemPreco(ent.preco) => novo.Preco = ParseFloat(TrimSpace(ent.preco)).f
    /\ (SemPreco(ent.preco) /\ ~SemTexto(ent.preco)) => novo.Preco = antigo.Preco

\* C17: an AtualizarCarro of an existing record does not fail; a refused
\* year or price leaves that field of the record at its old value in the
\* map and in the slice, every valid value typed for another field is in
\* both views afterwards, and a successful save writes the whole sequence.
C17_CampoACampo ==
    [][(lastOp'.op = "update" /\ Buscar(carrosMap, lastOp'.id).existe)
         => /\ Sucesso(lastOp'.res)
            /\ Buscar(carrosMap', lastOp'.id).existe
            /\ CampoACampo(carrosMap[lastOp'.id], carrosMap'[lastOp'.id], lastOp'.ent)
            /\ Len(carros'.items) = Len(carros.items)
            /\ \A i \in 1..Len(carros.items) :
                 carros.items[i].ID = lastOp'.id
                   => CampoACampo(carros.items[i], carros'.items[i], lastOp'.ent)
            /\ lastOp'.res = "ok" => arquivoJSON' = MarshalIndent(carros').doc]_vars

\* C18: after every successful save the file holds a JSON array, the empty
\* array when a RemoverCarro has left no record.
C18_SempreArray ==
    (lastOp.op \in {"add", "update", "remove"} /\ lastOp.res = "ok")
      => /\ arquivoJSON.kind = "array"
         /\ Len(arquivoJSON.recs) = Len(carros.items)

\* a caller is inside a method, from the call to the return
EmCurso(p) == pc[p] # "idle"

\* c.mu is held by nobody, or by callers that are inside the section the
\* lock guards
SemVazamento ==
    /\ mu.w # 0 - 1 => (mu.w \in Chamadores /\ SecaoEscrita(mu.w) /\ mu.r = {})
    /\ \A p \in mu.r : p \in Chamadores /\ SecaoLeitura(p)
    /\ \A p \in Chamadores : SecaoEscrita(p) => mu.w = p
    /\ \A p \in Chamadores : SecaoLeitura(p) => p \in mu.r
    /\ (\A p \in Chamadores : ~EmCurso(p)) => mu = MuLivre

\* some caller that is inside a method can take its next step
SemImpasse ==
    (\E p \in Chamadores : EmCurso(p))
      => \E q \in Chamadores : EmCurso(q) /\ ENABLED (PassoProprio(q) \/ CPrompts(q))

\* C19: the lock is held only by callers inside their critical section, so
\* it is free whenever no operation is in progress, also after a not-found
\* return and after a failed save; callers in progress are never all
\* stuck; a caller takes the lock only at the entry of its method, and the
\* save inside the write-locked section leaves the lock as it is.
C19_SemImpasseNemVazamento ==
    /\ [](SemVazamento /\ SemImpasse)
    /\ [][/\ \A p \in Chamadores :
              (mu'.w = p /\ mu.w # p) => pc[p] \in {"add_lock", "rm_lock", "up_lock"}
          /\ \A p \in Chamadores :
              (p \in mu'.r /\ p \notin mu.r) => pc[p] \in {"list_lock", "find_lock"}
          /\ (\E p \in Chamadores : pc[p] \in {"add_save", "rm_save", "up_save"}
                                      /\ pc'[p] # pc[p])
               => mu' = mu]_vars

\* a RemoverCarro or AtualizarCarro that found no record, or a mutation
\* whose save failed, is about to return with the lock, another caller
\* waiting for it
C19_AntesDeDevolver ==
    \E p \in Chamadores : \E q \in Chamadores \ {p} :
      /\ pc[p] \in {"rm_unlock", "up_unlock"}
      /\ mu.w = p
      /\ \/ loc[p].id = IdDesconhecido
         \/ arquivoJSON = DocMalformado /\ carros.items # <<>>
      /\ EsperaLock(q)

====
